---- MODULE Spec2Model ----
(***************************************************************************)
(* Model of src/bplus.js: the BPlusTree class (insert, insertNonFull,      *)
(* splitChild, search, delete), the loader and the readline menu loop.     *)
(*                                                                         *)
(* Objects are addressed by their position in the sequence `nodes` (the    *)
(* order in which `new BPlusTreeNode` ran); 0 stands for null.  JavaScript *)
(* arrays are 0-based, sequences here are 1-based: keys[i] of the source   *)
(* is At(keys, i) below, and reading past the end of an array gives        *)
(* `undefined` as it does in JavaScript.                                   *)
(*                                                                         *)
(* Keys: the words of the dictionary are strings that do not parse as      *)
(* numbers; word number n of the alphabet is the integer n >= 1, and the   *)
(* order of the integers is the lexicographic order of the words.  NumKey  *)
(* stands for a key of type number (the JavaScript value 0).               *)
(*                                                                         *)
(* maxKeys: the constructor stores whatever it is given.  The model covers *)
(* the integers MinOrder..MaxOrder, the orders 0 and 1 included, on which  *)
(* a split promotes `undefined` and an insert can end in a TypeError.      *)
(***************************************************************************)
EXTENDS Integers, Sequences, FiniteSets, TLC

VARIABLES maxKeys,     \* BPlusTree.maxKeys
          nodes,       \* every BPlusTreeNode created so far
          root,        \* BPlusTree.root
          lastOp,      \* the last call made on the tree
          lastKey,     \* its argument
          lastResult,  \* search: the value returned; delete: TRUE iff the "Deleted" line was logged
          threw,       \* the last call ended in a TypeError instead of returning
          expected,    \* history: per key, inserts that returned minus the deletes that logged "Deleted"
          nIns,        \* history: number of insert calls
          anyDelete,   \* history: delete has been called
          pc,          \* position of the program: "api", or the menu loop's position
          pending,     \* the rl.question callbacks waiting for a line
          out          \* what the program printed / asked since the last line was read, in order

vars == <<maxKeys, nodes, root, lastOp, lastKey, lastResult, threw, expected, nIns,
          anyDelete, pc, pending, out>>

treeVars == <<maxKeys, nodes, root>>
shellVars == <<pc, pending, out>>

----------------------------------------------------------------------------
(* Bounds of the model *)

MaxKey == 3        \* the words are 1..MaxKey
MinOrder == 0      \* trees are built with maxKeys in MinOrder..MaxOrder
MaxOrder == 4
MaxInserts == 6    \* at most this many insert calls in a behaviour
MaxWord == 5       \* the words typed into the menu of an empty dictionary are 1..MaxWord
MaxNodes == 4      \* direct calls of insertNonFull and splitChild stop when this many nodes exist

(* Program constants *)

DefaultMaxKeys == 4   \* constructor default, and the order of the shell's tree
null == 0
NumKey == 0           \* a key of type number
undefined == -1       \* the value of an array element that does not exist

Keys == 1..MaxKey
MixedKeys == Keys \cup {NumKey}
Orders == MinOrder..MaxOrder
Words == 1..MaxWord

----------------------------------------------------------------------------
(* JavaScript's relational operators on keys.  Two strings compare         *)
(* lexicographically.  In every other case both sides are converted with   *)
(* ToNumber: a word and undefined give NaN, and every comparison with NaN  *)
(* is false.  Number against the same number: neither < nor >.             *)

Lt(a, b) == IF a \in {NumKey, undefined} \/ b \in {NumKey, undefined} THEN FALSE ELSE a < b

Gt(a, b) == IF a \in {NumKey, undefined} \/ b \in {NumKey, undefined} THEN FALSE ELSE a > b

Min(a, b) == IF a <= b THEN a ELSE b

(* s[i] of the source: undefined outside the array *)
At(s, i) == IF 0 <= i /\ i < Len(s) THEN s[i + 1] ELSE undefined

(* s.slice(a, b) for 0 <= a: the elements a .. b - 1 that exist *)
Slice(s, a, b) == SubSeq(s, a + 1, Min(b, Len(s)))

(* Array.prototype.includes / indexOf: strict (same type, same value) *)
Includes(s, x) == \E j \in 1..Len(s) : s[j] = x

IndexOf(s, x) ==
    IF Includes(s, x) THEN (CHOOSE j \in 1..Len(s) : s[j] = x /\ \A l \in 1..(j - 1) : s[l] # x) - 1
    ELSE -1

(* s.splice(idx, 0, x): the array after inserting x at 0-based idx; an idx *)
(* past the end inserts at the end                                         *)
SpliceIn(s, idx, x) ==
    Slice(s, 0, Min(idx, Len(s))) \o <<x>> \o Slice(s, Min(idx, Len(s)), Len(s))

(* s.splice(idx, 1): the array after removing the element at 0-based idx *)
SpliceOut(s, idx) == SubSeq(s, 1, idx) \o SubSeq(s, idx + 2, Len(s))

(* new BPlusTreeNode(isLeaf) *)
BPlusTreeNode(isLeaf) == [isLeaf |-> isLeaf, keys |-> <<>>, children |-> <<>>, next |-> null]

----------------------------------------------------------------------------
(* splitChild without line 68: the new leaf's next stays null *)
splitChild_NoChain(h, parent, index, m) ==
    LET node == At(h[parent].children, index)
        newId == Len(h) + 1
        mid == (m + 1) \div 2
        ks == h[node].keys
        cs == h[node].children
        newNode == IF h[node].isLeaf
                   THEN [isLeaf |-> TRUE, keys |-> Slice(ks, mid, Len(ks)),
                         children |-> <<>>, next |-> null]
                   ELSE [isLeaf |-> FALSE, keys |-> Slice(ks, mid + 1, Len(ks)),
                         children |-> Slice(cs, mid + 1, Len(cs)), next |-> null]
        h1 == IF h[node].isLeaf
              THEN [h EXCEPT ![node].keys = Slice(ks, 0, mid), ![node].next = newId]
              ELSE [h EXCEPT ![node].keys = Slice(ks, 0, mid),
                             ![node].children = Slice(cs, 0, mid + 1)]
    IN Append([h1 EXCEPT ![parent].keys = SpliceIn(@, index, At(ks, mid)),
                         ![parent].children = SpliceIn(@, index + 1, newId)],
              newNode)

(* splitChild whose leaf split moves the promoted key up instead of        *)
(* copying it: the new leaf takes keys.splice(mid + 1)                     *)
splitChild_MoveUp(h, parent, index, m) ==
    LET node == At(h[parent].children, index)
        newId == Len(h) + 1
        mid == (m + 1) \div 2
        ks == h[node].keys
        cs == h[node].children
        newNode == IF h[node].isLeaf
                   THEN [isLeaf |-> TRUE, keys |-> Slice(ks, mid + 1, Len(ks)),
                         children |-> <<>>, next |-> h[node].next]
                   ELSE [isLeaf |-> FALSE, keys |-> Slice(ks, mid + 1, Len(ks)),
                         children |-> Slice(cs, mid + 1, Len(cs)), next |-> null]
        h1 == IF h[node].isLeaf
              THEN [h EXCEPT ![node].keys = Slice(ks, 0, mid), ![node].next = newId]
              ELSE [h EXCEPT ![node].keys = Slice(ks, 0, mid),
                             ![node].children = Slice(cs, 0, mid + 1)]
    IN Append([h1 EXCEPT ![parent].keys = SpliceIn(@, index, At(ks, mid)),
                         ![parent].children = SpliceIn(@, index + 1, newId)],
              newNode)

(* splitChild whose new node is always created as a leaf:                  *)
(* new BPlusTreeNode(true)                                                 *)
splitChild_LeafSibling(h, parent, index, m) ==
    LET node == At(h[parent].children, index)
        newId == Len(h) + 1
        mid == (m + 1) \div 2
        ks == h[node].keys
        cs == h[node].children
        newNode == IF h[node].isLeaf
                   THEN [isLeaf |-> TRUE, keys |-> Slice(ks, mid, Len(ks)),
                         children |-> <<>>, next |-> h[node].next]
                   ELSE [isLeaf |-> TRUE, keys |-> Slice(ks, mid + 1, Len(ks)),
                         children |-> Slice(cs, mid + 1, Len(cs)), next |-> null]
        h1 == IF h[node].isLeaf
              THEN [h EXCEPT ![node].keys = Slice(ks, 0, mid), ![node].next = newId]
              ELSE [h EXCEPT ![node].keys = Slice(ks, 0, mid),
                             ![node].children = Slice(cs, 0, mid + 1)]
    IN Append([h1 EXCEPT ![parent].keys = SpliceIn(@, index, At(ks, mid)),
                         ![parent].children = SpliceIn(@, index + 1, newId)],
              newNode)

(* splitChild whose internal split reads the right children with slice    *)
(* instead of splice: the split node keeps all its children                *)
splitChild_SliceChildren(h, parent, index, m) ==
    LET node == At(h[parent].children, index)
        newId == Len(h) + 1
        mid == (m + 1) \div 2
        ks == h[node].keys
        cs == h[node].children
        newNode == IF h[node].isLeaf
                   THEN [isLeaf |-> TRUE, keys |-> Slice(ks, mid, Len(ks)),
                         children |-> <<>>, next |-> h[node].next]
                   ELSE [isLeaf |-> FALSE, keys |-> Slice(ks, mid + 1, Len(ks)),
                         children |-> Slice(cs, mid + 1, Len(cs)), next |-> null]
        h1 == IF h[node].isLeaf
              THEN [h EXCEPT ![node].keys = Slice(ks, 0, mid), ![node].next = newId]
              ELSE [h EXCEPT ![node].keys = Slice(ks, 0, mid)]
    IN Append([h1 EXCEPT ![parent].keys = SpliceIn(@, index, At(ks, mid)),
                         ![parent].children = SpliceIn(@, index + 1, newId)],
              newNode)

(* splitChild(parent, index) on heap h of a tree of order m, for a parent  *)
(* that has a child at index: the heap afterwards.  (Without such a child  *)
(* line 59 throws before anything is changed: see CallSplitChild.)         *)

splitChild(h, parent, index, m) ==
    LET node == At(h[parent].children, index)
        newId == Len(h) + 1
        mid == (m + 1) \div 2
        ks == h[node].keys
        cs == h[node].children
    IN IF h[node].isLeaf
       THEN LET rightKeys == Slice(ks, mid, Len(ks))
                promoteKey == At(rightKeys, 0)
                newNode == [isLeaf |-> TRUE, keys |-> rightKeys,
                            children |-> <<>>, next |-> h[node].next]
                h1 == [h EXCEPT ![node].keys = Slice(ks, 0, mid),
                                ![node].next = newId]
            IN Append([h1 EXCEPT ![parent].keys = SpliceIn(@, index, promoteKey),
                                 ![parent].children = SpliceIn(@, index + 1, newId)],
                      newNode)
       ELSE LET promoteKey == At(ks, mid)
                newNode == [isLeaf |-> FALSE, keys |-> Slice(ks, mid + 1, Len(ks)),
                            children |-> Slice(cs, mid + 1, Len(cs)), next |-> null]
                h1 == [h EXCEPT ![node].keys = Slice(ks, 0, mid),
                                ![node].children = Slice(cs, 0, mid + 1)]
            IN Append([h1 EXCEPT ![parent].keys = SpliceIn(@, index, promoteKey),
                                 ![parent].children = SpliceIn(@, index + 1, newId)],
                      newNode)

(* while (i >= 0 && key < keys[i]) i--;  the value of i after the loop *)
RECURSIVE ScanDown(_, _, _)
ScanDown(ks, key, i) ==
    IF i >= 0 /\ Lt(key, At(ks, i)) THEN ScanDown(ks, key, i - 1) ELSE i

(* while (i < keys.length && key > keys[i]) i++;  the value of i after the loop *)
RECURSIVE ScanUp(_, _, _)
ScanUp(ks, key, i) ==
    IF i < Len(ks) /\ Gt(key, At(ks, i)) THEN ScanUp(ks, key, i + 1) ELSE i

(* insertNonFull without lines 50-52: after a split the index is not moved *)
(* past the promoted key                                                   *)
RECURSIVE insertNonFull_NoAdjust(_, _, _, _)
insertNonFull_NoAdjust(h, node, key, m) ==
    IF node = undefined THEN [nodes |-> h, threw |-> TRUE]
    ELSE LET i0 == ScanDown(h[node].keys, key, Len(h[node].keys) - 1)
         IN IF h[node].isLeaf
            THEN [nodes |-> [h EXCEPT ![node].keys = SpliceIn(@, i0 + 1, key)], threw |-> FALSE]
            ELSE LET i1 == i0 + 1
                     child == At(h[node].children, i1)
                 IN IF child = undefined
                    THEN [nodes |-> h, threw |-> TRUE]
                    ELSE LET full == Len(h[child].keys) = m
                             h1 == IF full THEN splitChild(h, node, i1, m) ELSE h
                         IN insertNonFull_NoAdjust(h1, At(h1[node].children, i1), key, m)

(* insertNonFull without lines 48-53: a full child is entered as it is *)
RECURSIVE insertNonFull_NoSplit(_, _, _, _)
insertNonFull_NoSplit(h, node, key, m) ==
    IF node = undefined THEN [nodes |-> h, threw |-> TRUE]
    ELSE LET i0 == ScanDown(h[node].keys, key, Len(h[node].keys) - 1)
         IN IF h[node].isLeaf
            THEN [nodes |-> [h EXCEPT ![node].keys = SpliceIn(@, i0 + 1, key)], threw |-> FALSE]
            ELSE insertNonFull_NoSplit(h, At(h[node].children, i0 + 1), key, m)

(* insertNonFull(node, key): the heap afterwards, and whether the call     *)
(* threw.  Reading .keys of a node that is undefined (lines 36 and 48) is  *)
(* a TypeError; what was changed before it stays changed.                  *)
RECURSIVE insertNonFull(_, _, _, _)
insertNonFull(h, node, key, m) ==
    IF node = undefined THEN [nodes |-> h, threw |-> TRUE]
    ELSE LET i0 == ScanDown(h[node].keys, key, Len(h[node].keys) - 1)
         IN IF h[node].isLeaf
            THEN [nodes |-> [h EXCEPT ![node].keys = SpliceIn(@, i0 + 1, key)], threw |-> FALSE]
            ELSE LET i1 == i0 + 1
                     child == At(h[node].children, i1)
                 IN IF child = undefined
                    THEN [nodes |-> h, threw |-> TRUE]
                    ELSE LET full == Len(h[child].keys) = m
                             h1 == IF full THEN splitChild(h, node, i1, m) ELSE h
                             i2 == IF full /\ Gt(key, At(h1[node].keys, i1)) THEN i1 + 1 ELSE i1
                         IN insertNonFull(h1, At(h1[node].children, i2), key, m)

(* insert whose test of the root is keys.length <= maxKeys *)
insert_Late(h, r, key, m) ==
    IF Len(h[r].keys) <= m
    THEN LET res == insertNonFull(h, r, key, m)
         IN [nodes |-> res.nodes, root |-> r, threw |-> res.threw]
    ELSE LET newRoot == Len(h) + 1
             h1 == Append(h, [BPlusTreeNode(FALSE) EXCEPT !.children = <<r>>])
             h2 == splitChild(h1, newRoot, 0, m)
             res == insertNonFull(h2, newRoot, key, m)
         IN [nodes |-> res.nodes, root |-> newRoot, threw |-> res.threw]

(* insert(key): the heap and the root afterwards, and whether the call     *)
(* threw (this.root is assigned at line 30, before line 31 can throw)      *)
insert(h, r, key, m) ==
    IF Len(h[r].keys) < m
    THEN LET res == insertNonFull(h, r, key, m)
         IN [nodes |-> res.nodes, root |-> r, threw |-> res.threw]
    ELSE LET newRoot == Len(h) + 1
             h1 == Append(h, [BPlusTreeNode(FALSE) EXCEPT !.children = <<r>>])
             h2 == splitChild(h1, newRoot, 0, m)
             res == insertNonFull(h2, newRoot, key, m)
         IN [nodes |-> res.nodes, root |-> newRoot, threw |-> res.threw]

(* _search whose leaf test is the scan's result (some key >= key) instead  *)
(* of keys.includes(key)                                                   *)
RECURSIVE search_ByScan(_, _, _)
search_ByScan(h, node, key) ==
    IF node = undefined THEN [found |-> FALSE, threw |-> TRUE]
    ELSE LET i == ScanUp(h[node].keys, key, 0)
         IN IF h[node].isLeaf
            THEN [found |-> i < Len(h[node].keys), threw |-> FALSE]
            ELSE search_ByScan(h, At(h[node].children, i), key)

(* _search(node, key): the value returned, or that line 93 threw on a node *)
(* that is undefined                                                       *)
RECURSIVE search(_, _, _)
search(h, node, key) ==
    IF node = undefined THEN [found |-> FALSE, threw |-> TRUE]
    ELSE LET i == ScanUp(h[node].keys, key, 0)
         IN IF h[node].isLeaf
            THEN [found |-> Includes(h[node].keys, key), threw |-> FALSE]
            ELSE search(h, At(h[node].children, i), key)

(* _delete without the test index !== -1: keys.splice(-1, 1) removes the  *)
(* last key                                                                *)
RECURSIVE delete_NoCheck(_, _, _)
delete_NoCheck(h, node, key) ==
    IF node = undefined THEN [nodes |-> h, found |-> FALSE, threw |-> TRUE]
    ELSE LET i == ScanUp(h[node].keys, key, 0)
         IN IF h[node].isLeaf
            THEN LET index == IndexOf(h[node].keys, key)
                     at == IF index = -1 THEN Len(h[node].keys) - 1 ELSE index
                 IN [nodes |-> IF at >= 0 THEN [h EXCEPT ![node].keys = SpliceOut(@, at)] ELSE h,
                     found |-> TRUE, threw |-> FALSE]
            ELSE delete_NoCheck(h, At(h[node].children, i), key)

(* _delete that removes every occurrence of the key from the leaf:         *)
(* node.keys = node.keys.filter(x => x !== key)                            *)
RECURSIVE delete_All(_, _, _)
delete_All(h, node, key) ==
    IF node = undefined THEN [nodes |-> h, found |-> FALSE, threw |-> TRUE]
    ELSE LET i == ScanUp(h[node].keys, key, 0)
         IN IF h[node].isLeaf
            THEN IF IndexOf(h[node].keys, key) # -1
                 THEN [nodes |-> [h EXCEPT ![node].keys = SelectSeq(@, LAMBDA x : x # key)],
                       found |-> TRUE, threw |-> FALSE]
                 ELSE [nodes |-> h, found |-> FALSE, threw |-> FALSE]
            ELSE delete_All(h, At(h[node].children, i), key)

(* _delete(node, key): the heap afterwards, which line was logged, and     *)
(* whether line 110 threw on a node that is undefined                      *)
RECURSIVE delete(_, _, _)
delete(h, node, key) ==
    IF node = undefined THEN [nodes |-> h, found |-> FALSE, threw |-> TRUE]
    ELSE LET i == ScanUp(h[node].keys, key, 0)
         IN IF h[node].isLeaf
            THEN LET index == IndexOf(h[node].keys, key)
                 IN IF index # -1
                    THEN [nodes |-> [h EXCEPT ![node].keys = SpliceOut(@, index)],
                          found |-> TRUE, threw |-> FALSE]
                    ELSE [nodes |-> h, found |-> FALSE, threw |-> FALSE]
            ELSE delete(h, At(h[node].children, i), key)

----------------------------------------------------------------------------
(* The tree used through insert, search and delete *)

Init ==
    /\ maxKeys \in Orders
    /\ nodes = <<BPlusTreeNode(TRUE)>>
    /\ root = 1
    /\ lastOp = "none"
    /\ lastKey = null
    /\ lastResult = FALSE
    /\ threw = FALSE
    /\ expected = [k \in MixedKeys |-> 0]
    /\ nIns = 0
    /\ anyDelete = FALSE
    /\ pc = "api"
    /\ pending = <<>>
    /\ out = <<>>

Insert(k) ==
    /\ pc = "api"
    /\ nIns < MaxInserts
    /\ LET r == insert(nodes, root, k, maxKeys)
       IN /\ nodes' = r.nodes
          /\ root' = r.root
          /\ threw' = r.threw
          /\ expected' = IF r.threw THEN expected ELSE [expected EXCEPT ![k] = @ + 1]
    /\ lastOp' = "insert"
    /\ lastKey' = k
    /\ lastResult' = FALSE
    /\ nIns' = nIns + 1
    /\ UNCHANGED <<maxKeys, anyDelete, pc, pending, out>>

Search(k) ==
    /\ pc = "api"
    /\ lastOp' = "search"
    /\ lastKey' = k
    /\ LET r == search(nodes, root, k)
       IN lastResult' = r.found /\ threw' = r.threw
    /\ UNCHANGED <<maxKeys, nodes, root, expected, nIns, anyDelete, pc, pending, out>>

Delete(k) ==
    /\ pc = "api"
    /\ LET r == delete(nodes, root, k)
       IN /\ nodes' = r.nodes
          /\ lastResult' = r.found
          /\ threw' = r.threw
          /\ expected' = IF r.found THEN [expected EXCEPT ![k] = @ - 1] ELSE expected
    /\ lastOp' = "delete"
    /\ lastKey' = k
    /\ anyDelete' = TRUE
    /\ UNCHANGED <<maxKeys, root, nIns, pc, pending, out>>

Next ==
    \/ \E k \in Keys : Insert(k)
    \/ \E k \in Keys : Search(k)
    \/ \E k \in Keys : Delete(k)

Spec == Init /\ [][Next]_vars

(* The same methods called with keys of both types *)
MixedNext ==
    \/ \E k \in MixedKeys : Insert(k)
    \/ \E k \in MixedKeys : Search(k)
    \/ \E k \in MixedKeys : Delete(k)

MixedSpec == Init /\ [][MixedNext]_vars

----------------------------------------------------------------------------
(* insertNonFull and splitChild are methods of the class like the others,  *)
(* and a caller that holds a tree can call them on any node of it.  The    *)
(* file itself calls them only from insert and insertNonFull.              *)

(* tree.insertNonFull(n, k) called directly *)
CallInsertNonFull(n, k) ==
    /\ pc = "api"
    /\ nIns < MaxInserts
    /\ Len(nodes) < MaxNodes
    /\ LET r == insertNonFull(nodes, n, k, maxKeys)
       IN /\ nodes' = r.nodes
          /\ threw' = r.threw
          /\ expected' = IF r.threw THEN expected ELSE [expected EXCEPT ![k] = @ + 1]
    /\ lastOp' = "insertNonFull"
    /\ lastKey' = k
    /\ lastResult' = FALSE
    /\ nIns' = nIns + 1
    /\ UNCHANGED <<maxKeys, root, anyDelete, pc, pending, out>>

(* tree.splitChild(p, index) called directly; without a child at index     *)
(* line 59 reads isLeaf of undefined and throws                            *)
CallSplitChild(p, index) ==
    /\ pc = "api"
    /\ Len(nodes) < MaxNodes
    /\ IF At(nodes[p].children, index) = undefined
       THEN nodes' = nodes /\ threw' = TRUE
       ELSE nodes' = splitChild(nodes, p, index, maxKeys) /\ threw' = FALSE
    /\ lastOp' = "splitChild"
    /\ lastKey' = null
    /\ lastResult' = FALSE
    /\ UNCHANGED <<maxKeys, root, expected, nIns, anyDelete, pc, pending, out>>

OpenNext ==
    \/ \E k \in Keys : Insert(k)
    \/ \E k \in Keys : Search(k)
    \/ \E k \in Keys : Delete(k)
    \/ \E n \in 1..Len(nodes) : \E k \in Keys : CallInsertNonFull(n, k)
    \/ \E p \in 1..Len(nodes) : \E index \in 0..MaxOrder : CallSplitChild(p, index)

OpenSpec == Init /\ [][OpenNext]_vars

----------------------------------------------------------------------------
(* The program: lines 153-155 build a tree of order 4 and load the words   *)
(* of the file into it, line 226 starts the menu.  pending holds the       *)
(* rl.question callbacks that wait for a line: "choice" (line 170),        *)
(* "search" (173), "insert" (194), "delete" (207).  out lists what was     *)
(* printed since the last line was read: "menu" is the menu text of lines  *)
(* 164-168, "file not found" line 131, "loaded" line 147, "load time" line *)
(* 148.  A TypeError that leaves a callback or the loader is not caught:   *)
(* the process ends.                                                       *)

ShellInit ==
    /\ maxKeys = DefaultMaxKeys
    /\ nodes = <<BPlusTreeNode(TRUE)>>
    /\ root = 1
    /\ lastOp = "none"
    /\ lastKey = null
    /\ lastResult = FALSE
    /\ threw = FALSE
    /\ expected = [k \in MixedKeys |-> 0]
    /\ nIns = 0
    /\ anyDelete = FALSE
    /\ pc = "load"
    /\ pending = <<>>
    /\ out = <<>>

(* an uncaught TypeError: the process ends with the error printed *)
Uncaught ==
    /\ pc' = "crashed"
    /\ pending' = <<>>
    /\ out' = <<"TypeError">>

(* words.forEach(word => tree.insert(word)), one word *)
LoadWord(w) ==
    /\ pc = "load"
    /\ nIns < MaxInserts
    /\ LET r == insert(nodes, root, w, maxKeys)
       IN /\ nodes' = r.nodes
          /\ root' = r.root
          /\ threw' = r.threw
          /\ expected' = IF r.threw THEN expected ELSE [expected EXCEPT ![w] = @ + 1]
          /\ IF r.threw THEN Uncaught ELSE UNCHANGED <<pc, pending, out>>
    /\ lastOp' = "insert"
    /\ lastKey' = w
    /\ lastResult' = FALSE
    /\ nIns' = nIns + 1
    /\ UNCHANGED <<maxKeys, anyDelete>>

(* showMenu(): print the menu and ask for the choice *)
showMenu(p, o) == [pending |-> Append(p, "choice"), out |-> Append(o, "menu")]

(* words.txt exists and has been read to its end (it may hold no word):    *)
(* lines 147-148 print the count and the time, line 226 shows the menu     *)
StartMenu ==
    /\ pc = "load"
    /\ pc' = "run"
    /\ LET s == showMenu(pending, <<"loaded", "load time">>)
       IN pending' = s.pending /\ out' = s.out
    /\ UNCHANGED <<maxKeys, nodes, root, lastOp, lastKey, lastResult, threw, expected, nIns,
                   anyDelete>>

(* words.txt does not exist: line 131 prints that and the loader returns   *)
(* with nothing inserted, line 226 shows the menu                          *)
StartMenuNoFile ==
    /\ pc = "load"
    /\ nIns = 0
    /\ pc' = "run"
    /\ LET s == showMenu(pending, <<"file not found">>)
       IN pending' = s.pending /\ out' = s.out
    /\ UNCHANGED <<maxKeys, nodes, root, lastOp, lastKey, lastResult, threw, expected, nIns,
                   anyDelete>>

(* a line answers the oldest question *)
Answering(q) == pc = "run" /\ pending # <<>> /\ Head(pending) = q

(* choice '1', '2', '3': ask for the word *)
ChooseOp(q) ==
    /\ Answering("choice")
    /\ pending' = Append(Tail(pending), q)
    /\ out' = <<>>
    /\ UNCHANGED <<maxKeys, nodes, root, lastOp, lastKey, lastResult, threw, expected, nIns,
                   anyDelete, pc>>

(* choice '4': rl.close() *)
ChooseExit ==
    /\ Answering("choice")
    /\ pending' = Tail(pending)
    /\ out' = <<"bye">>
    /\ pc' = "closed"
    /\ UNCHANGED <<maxKeys, nodes, root, lastOp, lastKey, lastResult, threw, expected, nIns,
                   anyDelete>>

(* the default branch without its showMenu() call *)
ChooseInvalid_NoMenu ==
    /\ Answering("choice")
    /\ pending' = Tail(pending)
    /\ out' = <<"invalid">>
    /\ UNCHANGED <<maxKeys, nodes, root, lastOp, lastKey, lastResult, threw, expected, nIns,
                   anyDelete, pc>>

(* any other choice *)
ChooseInvalid ==
    /\ Answering("choice")
    /\ LET s == showMenu(Tail(pending), <<"invalid">>)
       IN pending' = s.pending /\ out' = s.out
    /\ UNCHANGED <<maxKeys, nodes, root, lastOp, lastKey, lastResult, threw, expected, nIns,
                   anyDelete, pc>>

(* the callback of line 173 *)
EnterSearch(w) ==
    /\ Answering("search")
    /\ lastOp' = "search"
    /\ lastKey' = w
    /\ LET r == search(nodes, root, w)
       IN /\ lastResult' = r.found
          /\ threw' = r.threw
          /\ IF r.threw
             THEN Uncaught
             ELSE /\ LET s == showMenu(Tail(pending),
                                       <<IF r.found THEN "found" ELSE "not found", "time">>)
                     IN pending' = s.pending /\ out' = s.out
                  /\ UNCHANGED pc
    /\ UNCHANGED <<maxKeys, nodes, root, expected, nIns, anyDelete>>

(* the callback of line 194 *)
EnterInsert(w) ==
    /\ Answering("insert")
    /\ lastKey' = w
    /\ LET g == search(nodes, root, w)
       IN IF g.threw
          THEN /\ lastOp' = "search"
               /\ lastResult' = FALSE
               /\ threw' = TRUE
               /\ Uncaught
               /\ UNCHANGED <<nodes, root, expected, nIns>>
          ELSE IF g.found
          THEN /\ lastOp' = "search"
               /\ lastResult' = TRUE
               /\ threw' = FALSE
               /\ LET s == showMenu(Tail(pending), <<"exists">>)
                  IN pending' = s.pending /\ out' = s.out
               /\ UNCHANGED <<nodes, root, expected, nIns, pc>>
          ELSE /\ nIns < MaxInserts
               /\ LET r == insert(nodes, root, w, maxKeys)
                  IN /\ nodes' = r.nodes
                     /\ root' = r.root
                     /\ threw' = r.threw
                     /\ expected' = IF r.threw THEN expected
                                    ELSE [expected EXCEPT ![w] = @ + 1]
                     /\ IF r.threw
                        THEN Uncaught
                        ELSE /\ LET s == showMenu(Tail(pending), <<"inserted">>)
                                IN pending' = s.pending /\ out' = s.out
                             /\ UNCHANGED pc
               /\ lastOp' = "insert"
               /\ lastResult' = FALSE
               /\ nIns' = nIns + 1
    /\ UNCHANGED <<maxKeys, anyDelete>>

(* the callback of line 207 *)
EnterDelete(w) ==
    /\ Answering("delete")
    /\ LET r == delete(nodes, root, w)
       IN /\ nodes' = r.nodes
          /\ lastResult' = r.found
          /\ threw' = r.threw
          /\ expected' = IF r.found THEN [expected EXCEPT ![w] = @ - 1] ELSE expected
          /\ IF r.threw
             THEN Uncaught
             ELSE /\ LET s == showMenu(Tail(pending),
                                       <<IF r.found THEN "deleted" ELSE "cannot delete">>)
                     IN pending' = s.pending /\ out' = s.out
                  /\ UNCHANGED pc
    /\ lastOp' = "delete"
    /\ lastKey' = w
    /\ anyDelete' = TRUE
    /\ UNCHANGED <<maxKeys, root, nIns>>

ShellNext ==
    \/ \E w \in Keys : LoadWord(w)
    \/ StartMenu
    \/ StartMenuNoFile
    \/ \E q \in {"search", "insert", "delete"} : ChooseOp(q)
    \/ ChooseExit
    \/ ChooseInvalid
    \/ \E w \in Keys : EnterSearch(w)
    \/ \E w \in Keys : EnterInsert(w)
    \/ \E w \in Keys : EnterDelete(w)

ShellSpec == ShellInit /\ [][ShellNext]_vars

(* The program started without a words file (lines 130-133) or with one    *)
(* that holds no word: the tree is empty when the menu starts, and every   *)
(* insert is the guarded insert of lines 196-200.                          *)
EmptyShellInit ==
    /\ maxKeys = DefaultMaxKeys
    /\ nodes = <<BPlusTreeNode(TRUE)>>
    /\ root = 1
    /\ lastOp = "none"
    /\ lastKey = null
    /\ lastResult = FALSE
    /\ threw = FALSE
    /\ expected = [k \in MixedKeys \cup Words |-> 0]
    /\ nIns = 0
    /\ anyDelete = FALSE
    /\ pc = "load"
    /\ pending = <<>>
    /\ out = <<>>

EmptyShellNext ==
    \/ StartMenu
    \/ StartMenuNoFile
    \/ \E q \in {"search", "insert", "delete"} : ChooseOp(q)
    \/ ChooseExit
    \/ ChooseInvalid
    \/ \E w \in Words : EnterSearch(w)
    \/ \E w \in Words : EnterInsert(w)
    \/ \E w \in Words : EnterDelete(w)

EmptyShellSpec == EmptyShellInit /\ [][EmptyShellNext]_vars

----------------------------------------------------------------------------
(* Observations of the tree *)

(* the orders on which a node that is split has keys on both sides of mid *)
ProperOrder == maxKeys >= 2

(* a <= b as JavaScript evaluates it on keys: false when either side is    *)
(* undefined, or when a word meets a number                                *)
Le(a, b) == (a = b /\ a # undefined) \/ Lt(a, b)

RECURSIVE Height(_, _)
Height(h, node) ==
    IF node = undefined THEN 0
    ELSE IF h[node].isLeaf THEN 1 ELSE 1 + Height(h, At(h[node].children, 0))

RECURSIVE Leftmost(_, _)
Leftmost(h, node) ==
    IF node = undefined THEN null
    ELSE IF h[node].isLeaf THEN node ELSE Leftmost(h, At(h[node].children, 0))

(* the leaves below node, left to right, through the children arrays *)
RECURSIVE LeavesUnder(_, _)
RECURSIVE LeavesOfChildren(_, _, _)
LeavesUnder(h, node) ==
    IF h[node].isLeaf THEN <<node>> ELSE LeavesOfChildren(h, h[node].children, 1)
LeavesOfChildren(h, cs, j) ==
    IF j > Len(cs) THEN <<>> ELSE LeavesUnder(h, cs[j]) \o LeavesOfChildren(h, cs, j + 1)

(* the nodes met by following next from node, at most fuel of them *)
RECURSIVE ChainFrom(_, _, _)
ChainFrom(h, node, fuel) ==
    IF node = null \/ fuel = 0 THEN <<>>
    ELSE <<node>> \o ChainFrom(h, h[node].next, fuel - 1)

(* the keys of the nodes ids, concatenated *)
RECURSIVE KeysOf(_, _)
KeysOf(h, ids) == IF ids = <<>> THEN <<>> ELSE h[Head(ids)].keys \o KeysOf(h, Tail(ids))

RECURSIVE Count(_, _)
Count(s, x) == IF s = <<>> THEN 0 ELSE (IF Head(s) = x THEN 1 ELSE 0) + Count(Tail(s), x)

Ascending(s) == \A j \in 1..(Len(s) - 1) : Le(s[j], s[j + 1])

LeafKeys == KeysOf(nodes, LeavesUnder(nodes, root))

(* some leaf of the tree holds k *)
Stored(k) == Includes(LeafKeys, k)

(* k is a routing key of some internal node *)
Routing(k) == \E n \in 1..Len(nodes) : ~nodes[n].isLeaf /\ Includes(nodes[n].keys, k)

TreeHeight == Height(nodes, root)

----------------------------------------------------------------------------
(* C1: with inserts only, search(k) is true for every key k inserted so    *)
(* far, after each prefix of the sequence.                                 *)
C1_InsertedKeysFound ==
    ~anyDelete => \A k \in Keys : expected[k] > 0 => search(nodes, root, k).found

(* C2: delete(k) of a key that some leaf holds logs "Deleted"; and when k  *)
(* was held exactly once, search(k) is then false and a second delete(k)   *)
(* logs "not found".                                                       *)
C2_DeleteStoredSucceeds ==
    [][\A k \in Keys :
          (Delete(k) /\ Stored(k)) =>
              /\ lastResult'
              /\ Count(LeafKeys, k) = 1 =>
                    /\ ~search(nodes', root', k).found
                    /\ ~delete(nodes', root', k).found]_vars

(* C3: the next chain from the leftmost leaf is the list of the tree's     *)
(* leaves, each once, ending at null; its keys are in ascending order and  *)
(* are, as a multiset, the keys inserted minus the occurrences removed.    *)
C3_LeafChain ==
    LET chain == ChainFrom(nodes, Leftmost(nodes, root), Len(nodes) + 1)
        ks == KeysOf(nodes, chain)
    IN /\ chain = LeavesUnder(nodes, root)
       /\ chain # <<>>
       /\ nodes[chain[Len(chain)]].next = null
       /\ Ascending(ks)
       /\ \A k \in Keys : Count(ks, k) = expected[k]

(* C3 as amended: the same, in every state of a tree with maxKeys >= 2.    *)
C3_LeafChainAmended == ProperOrder => C3_LeafChain

(* a successful delete has just run on a tree of order 2 or more with      *)
(* three or more chained leaves that holds some key twice                  *)
C3_Witness ==
    /\ ProperOrder
    /\ lastOp = "delete" /\ lastResult
    /\ Len(LeavesUnder(nodes, root)) >= 3
    /\ \E k \in Keys : expected[k] >= 2

(* C4: search(k) is true only if some leaf holds k.                        *)
C4_SearchSound ==
    /\ \A k \in Keys : search(nodes, root, k).found => Stored(k)
    /\ (lastOp = "search" /\ lastResult) => Stored(lastKey)

(* search has just returned false for a key that no leaf holds, on a tree  *)
(* of order 2 or more with internal nodes from which deletes have removed  *)
(* keys                                                                    *)
C4_Witness ==
    /\ ProperOrder
    /\ lastOp = "search" /\ ~lastResult /\ ~threw /\ ~Stored(lastKey)
    /\ TreeHeight >= 2 /\ anyDelete /\ Len(LeafKeys) < nIns

(* C5: delete(k) of a key that no leaf holds logs "not found" and changes  *)
(* no node and not the root.                                               *)
C5_DeleteAbsentNoChange ==
    [][\A k \in Keys :
          (Delete(k) /\ ~Stored(k)) =>
             (~lastResult' /\ ~threw' /\ nodes' = nodes /\ root' = root)]_vars

(* delete has just logged "not found" for a key no leaf holds, on a tree   *)
(* of order 2 or more with internal nodes and keys in its leaves           *)
C5_Witness ==
    /\ ProperOrder
    /\ lastOp = "delete" /\ ~lastResult /\ ~Stored(lastKey)
    /\ TreeHeight >= 2 /\ LeafKeys # <<>>

(* C6: after a delete(k) that removed one occurrence of k while another    *)
(* occurrence remains in a leaf, search(k) is true.                        *)
C6_DuplicateSurvivesDelete ==
    (lastOp = "delete" /\ lastResult /\ Stored(lastKey)) => search(nodes, root, lastKey).found

(* C7: the height starts at 1; an insert adds one to it exactly when the   *)
(* root holds maxKeys keys when the insert starts; search and delete leave *)
(* it alone; with at most maxKeys inserts the height is 1.                 *)
C7_HeightRule ==
    /\ TreeHeight = 1
    /\ [][/\ \A k \in Keys :
                Insert(k) =>
                   Height(nodes', root') =
                      TreeHeight + (IF Len(nodes[root].keys) = maxKeys THEN 1 ELSE 0)
          /\ \A k \in Keys : (Search(k) \/ Delete(k)) => Height(nodes', root') = TreeHeight
          /\ nIns' <= maxKeys => Height(nodes', root') = 1]_vars

(* C7 as amended: the same with the test the code makes: an insert adds    *)
(* one to the height exactly when the root holds maxKeys keys or more.     *)
C7_HeightRuleAmended ==
    /\ TreeHeight = 1
    /\ [][/\ \A k \in Keys :
                Insert(k) =>
                   Height(nodes', root') =
                      TreeHeight + (IF Len(nodes[root].keys) >= maxKeys THEN 1 ELSE 0)
          /\ \A k \in Keys : (Search(k) \/ Delete(k)) => Height(nodes', root') = TreeHeight
          /\ nIns' <= maxKeys => Height(nodes', root') = 1]_vars

(* an insert has just raised the height of a tree of order 2 or more from  *)
(* 2 to 3                                                                  *)
C7_Witness ==
    /\ ProperOrder
    /\ lastOp = "insert" /\ TreeHeight = 3 /\ Len(nodes[root].keys) = 1

(* C8: an insert into a root that is a full leaf gives an internal root    *)
(* with one key and two leaf children.  At the split the left leaf keeps   *)
(* the first mid keys of the old leaf and the right leaf gets the rest;    *)
(* the root's key is the first key of the right leaf and stays in it; no   *)
(* key of the old leaf is lost.                                            *)
RootLeafSplit(k) ==
    LET old == nodes[root].keys
        mid == (maxKeys + 1) \div 2
        atSplit == splitChild(Append(nodes, [BPlusTreeNode(FALSE) EXCEPT
                                                !.children = <<root>>]),
                              Len(nodes) + 1, 0, maxKeys)
        r == nodes'[root']
        L == At(r.children, 0)
        R == At(r.children, 1)
    IN /\ ~r.isLeaf /\ Len(r.keys) = 1 /\ Len(r.children) = 2
       /\ L = root /\ nodes'[L].isLeaf /\ nodes'[R].isLeaf
       /\ atSplit[L].keys = Slice(old, 0, mid)
       /\ atSplit[R].keys = Slice(old, mid, maxKeys)
       /\ atSplit[R].keys # <<>>
       /\ atSplit[root'].keys = <<At(atSplit[R].keys, 0)>>
       /\ r.keys = atSplit[root'].keys
       /\ At(nodes'[R].keys, 0) = At(r.keys, 0)
       /\ \A j \in 1..mid : Includes(nodes'[L].keys, old[j])
       /\ \A x \in Keys :
             Count(nodes'[L].keys \o nodes'[R].keys, x) =
                Count(old, x) + (IF x = k THEN 1 ELSE 0)

C8_RootLeafSplit ==
    [][\A k \in Keys :
          (Insert(k) /\ nodes[root].isLeaf /\ Len(nodes[root].keys) = maxKeys) =>
             RootLeafSplit(k)]_vars

(* C8 as amended: the same for an insert into the full root leaf of a tree *)
(* with maxKeys >= 2.                                                      *)
C8_RootLeafSplitAmended ==
    [][\A k \in Keys :
          (ProperOrder /\ Insert(k) /\ nodes[root].isLeaf /\ Len(nodes[root].keys) = maxKeys) =>
             RootLeafSplit(k)]_vars

(* the insert number maxKeys + 1 has just split a root leaf of a tree of   *)
(* order 4                                                                 *)
C8_Witness ==
    /\ lastOp = "insert" /\ maxKeys = DefaultMaxKeys /\ nIns = maxKeys + 1 /\ ~anyDelete
    /\ TreeHeight = 2 /\ Len(nodes) = 3

(* C9: insert with a key whose type differs from the type of a key in the  *)
(* tree does not modify the tree.                                          *)
Incomparable(k) ==
    \E n \in 1..Len(nodes) : \E j \in 1..Len(nodes[n].keys) :
        /\ nodes[n].keys[j] # undefined
        /\ (k = NumKey) # (nodes[n].keys[j] = NumKey)

C9_IncomparableRejected ==
    [][\A k \in MixedKeys :
          (Insert(k) /\ Incomparable(k)) => (nodes' = nodes /\ root' = root)]_vars

(* C10: at most one question is outstanding; every search, insert, delete  *)
(* or invalid-option command ends with the menu printed once and the       *)
(* choice question as the only one outstanding; the exit command leaves no *)
(* question outstanding and does not touch the tree; after it nothing      *)
(* happens.                                                                *)
CommandDone ==
    \/ ChooseInvalid
    \/ \E w \in Keys : EnterSearch(w) \/ EnterInsert(w) \/ EnterDelete(w)

C10_MenuLoop ==
    [][/\ Len(pending') <= 1
       /\ CommandDone => (pending' = <<"choice">> /\ Count(out', "menu") = 1)
       /\ ChooseExit => (pending' = <<>> /\ pc' = "closed" /\ Count(out', "menu") = 0
                         /\ UNCHANGED <<nodes, root, nIns, anyDelete, expected>>)
       /\ pc = "closed" => UNCHANGED vars]_vars

(* the exit command has been given after a search, an insert and a delete  *)
(* went through the menu                                                   *)
C10_Witness ==
    /\ pc = "closed" /\ pending = <<>> /\ out = <<"bye">>
    /\ anyDelete /\ lastOp = "search" /\ nIns >= 1

----------------------------------------------------------------------------
(* The descents of _search and _delete, and insertNonFull's choice of      *)
(* child, read off the same scans                                          *)

(* the index i at which _search (lines 92-95) leaves its scan *)
searchIndex(ks, key) == ScanUp(ks, key, 0)

(* the index i at which _delete (lines 109-112) leaves its scan *)
deleteIndex(ks, key) == ScanUp(ks, key, 0)

(* the index i of insertNonFull after lines 44-47, before any split *)
insertIndex(ks, key) == ScanDown(ks, key, Len(ks) - 1) + 1

(* the nodes _search(node, key) visits, in order *)
RECURSIVE SearchPath(_, _, _)
SearchPath(h, node, key) ==
    IF node = undefined THEN <<>>
    ELSE IF h[node].isLeaf THEN <<node>>
    ELSE <<node>> \o SearchPath(h, At(h[node].children, searchIndex(h[node].keys, key)), key)

(* the nodes _delete(node, key) visits, in order *)
RECURSIVE DeletePath(_, _, _)
DeletePath(h, node, key) ==
    IF node = undefined THEN <<>>
    ELSE IF h[node].isLeaf THEN <<node>>
    ELSE <<node>> \o DeletePath(h, At(h[node].children, deleteIndex(h[node].keys, key)), key)

(* the nodes of the subtree below node, node included *)
RECURSIVE NodesUnder(_, _)
NodesUnder(h, node) ==
    IF h[node].isLeaf THEN {node}
    ELSE {node} \cup UNION {NodesUnder(h, h[node].children[j]) : j \in 1..Len(h[node].children)}

(* the keys held by the nodes of the subtree below node *)
SubtreeKeys(h, node) ==
    UNION {{h[n].keys[j] : j \in 1..Len(h[n].keys)} : n \in NodesUnder(h, node)}

TreeNodes == NodesUnder(nodes, root)

(* 0-based position of the first key equal to k, as indexOf gives it *)
TieAt(ks, k, i) == At(ks, i) = k /\ IndexOf(ks, k) = i

(* C11: in search and in delete, at an internal node on the path where the *)
(* key equals routing key keys[i], the next node is children[i+1].         *)
C11_TieDescendsRight ==
    \A k \in Keys :
       LET sp == SearchPath(nodes, root, k)
           dp == DeletePath(nodes, root, k)
       IN /\ \A j \in 1..(Len(sp) - 1) : \A i \in 0..(Len(nodes[sp[j]].keys) - 1) :
                TieAt(nodes[sp[j]].keys, k, i) => sp[j + 1] = At(nodes[sp[j]].children, i + 1)
          /\ \A j \in 1..(Len(dp) - 1) : \A i \in 0..(Len(nodes[dp[j]].keys) - 1) :
                TieAt(nodes[dp[j]].keys, k, i) => dp[j + 1] = At(nodes[dp[j]].children, i + 1)

(* C12: at every internal node on the path of search(k) the child index    *)
(* insertNonFull chooses for k (before a split) is the index search(k) and *)
(* delete(k) choose.                                                       *)
C12_SameChildRule ==
    \A k \in Keys :
       LET sp == SearchPath(nodes, root, k)
       IN \A j \in 1..(Len(sp) - 1) :
             /\ insertIndex(nodes[sp[j]].keys, k) = searchIndex(nodes[sp[j]].keys, k)
             /\ insertIndex(nodes[sp[j]].keys, k) = deleteIndex(nodes[sp[j]].keys, k)

(* C13: for every internal node and index i, every key in the subtree      *)
(* children[i] is <= keys[i] and every key in the subtree children[i+1] is *)
(* >= keys[i].                                                             *)
C13_KeysPartition ==
    \A n \in TreeNodes : \A i \in 1..Len(nodes[n].keys) :
       ~nodes[n].isLeaf =>
          /\ At(nodes[n].children, i - 1) # undefined
          /\ At(nodes[n].children, i) # undefined
          /\ \A x \in SubtreeKeys(nodes, At(nodes[n].children, i - 1)) : Le(x, nodes[n].keys[i])
          /\ \A x \in SubtreeKeys(nodes, At(nodes[n].children, i)) : Le(nodes[n].keys[i], x)

(* C13 as amended: the same, in every state of a tree with maxKeys >= 2.   *)
C13_KeysPartitionAmended == ProperOrder => C13_KeysPartition

(* a delete has just removed a key from a tree of order 2 or more and      *)
(* height 3 that holds a key twice                                         *)
C13_Witness ==
    /\ ProperOrder
    /\ lastOp = "delete" /\ lastResult /\ TreeHeight = 3
    /\ \E k \in Keys : expected[k] >= 2

----------------------------------------------------------------------------
(* The splits splitChild can be asked for in the current tree: of a full   *)
(* child of an internal node (line 49), and of a full root under a new     *)
(* root (lines 24-29).  h is the heap after the split, left the node       *)
(* split, right the node created.                                          *)
FullChildren ==
    {pi \in UNION {{<<n, i>> : i \in 0..(Len(nodes[n].children) - 1)} : n \in TreeNodes} :
        Len(nodes[At(nodes[pi[1]].children, pi[2])].keys) = maxKeys}

Splits ==
    {[h |-> splitChild(nodes, pi[1], pi[2], maxKeys), parent |-> pi[1], index |-> pi[2],
      left |-> At(nodes[pi[1]].children, pi[2]), right |-> Len(nodes) + 1] : pi \in FullChildren}
    \cup
    (IF ~(Len(nodes[root].keys) < maxKeys)
     THEN {[h |-> splitChild(Append(nodes, [BPlusTreeNode(FALSE) EXCEPT !.children = <<root>>]),
                             Len(nodes) + 1, 0, maxKeys),
            parent |-> Len(nodes) + 1, index |-> 0, left |-> root, right |-> Len(nodes) + 2]}
     ELSE {})

CeilHalf(m) == (m + 1) \div 2
FloorHalf(m) == m \div 2

(* C14: with inserts only, every non-root node holds at least              *)
(* ceil(maxKeys/2) and at most maxKeys keys, and right after a split both  *)
(* the left and the new right node hold at least ceil(maxKeys/2) keys.     *)
C14_MinOccupancy ==
    ~anyDelete =>
       /\ \A n \in TreeNodes \ {root} :
             CeilHalf(maxKeys) <= Len(nodes[n].keys) /\ Len(nodes[n].keys) <= maxKeys
       /\ \A sp \in Splits :
             /\ Len(sp.h[sp.left].keys) >= CeilHalf(maxKeys)
             /\ Len(sp.h[sp.right].keys) >= CeilHalf(maxKeys)

(* C14 as amended: with inserts only and maxKeys >= 2, a non-root leaf     *)
(* holds between floor(maxKeys/2) and maxKeys keys and a non-root internal *)
(* node between floor(maxKeys/2) - 1 and maxKeys keys; right after a split *)
(* the left node holds floor((maxKeys+1)/2) keys and the new right node    *)
(* holds floor(maxKeys/2) keys if it is a leaf, floor(maxKeys/2) - 1 if it *)
(* is internal.                                                            *)
C14_MinOccupancyAmended ==
    (ProperOrder /\ ~anyDelete) =>
       /\ \A n \in TreeNodes \ {root} :
             /\ Len(nodes[n].keys) <= maxKeys
             /\ Len(nodes[n].keys) >=
                   FloorHalf(maxKeys) - (IF nodes[n].isLeaf THEN 0 ELSE 1)
       /\ \A sp \in Splits :
             /\ Len(sp.h[sp.left].keys) = (maxKeys + 1) \div 2
             /\ Len(sp.h[sp.right].keys) =
                   FloorHalf(maxKeys) - (IF sp.h[sp.right].isLeaf THEN 0 ELSE 1)

(* inserts only have built a tree of order 2 or more and height 3 (an      *)
(* internal node has been split) in which a leaf and an internal node are  *)
(* full                                                                    *)
C14_Witness ==
    /\ ProperOrder
    /\ ~anyDelete /\ TreeHeight = 3
    /\ \E sp \in Splits : nodes[sp.left].isLeaf
    /\ \E sp \in Splits : ~nodes[sp.left].isLeaf

----------------------------------------------------------------------------
(* the depths (root = 1) at which the leaves below node lie *)
RECURSIVE LeafDepths(_, _, _)
LeafDepths(h, node, d) ==
    IF h[node].isLeaf THEN {d}
    ELSE UNION {LeafDepths(h, h[node].children[j], d + 1) : j \in 1..Len(h[node].children)}

(* C15: after every completed insert or delete all leaves are at the same  *)
(* depth from the root.                                                    *)
C15_LeavesSameDepth ==
    (lastOp \in {"insert", "delete"} /\ ~threw) => Cardinality(LeafDepths(nodes, root, 1)) = 1

(* an insert has just split the internal root of a tree of order 2 or      *)
(* more: every leaf is at depth 3                                          *)
C15_Witness ==
    /\ ProperOrder
    /\ lastOp = "insert" /\ ~threw /\ LeafDepths(nodes, root, 1) = {3}
    /\ Len(nodes[root].keys) = 1 /\ anyDelete

----------------------------------------------------------------------------
(* The calls insert(key) makes, in order: for each insertNonFull call the  *)
(* number of keys of its node at entry, for each splitChild call the       *)
(* number of keys of the child it is asked to split.                       *)
RECURSIVE insertNonFullCalls(_, _, _, _)
insertNonFullCalls(h, node, key, m) ==
    IF node = undefined THEN <<>>
    ELSE LET i0 == ScanDown(h[node].keys, key, Len(h[node].keys) - 1)
             entry == [fn |-> "insertNonFull", len |-> Len(h[node].keys)]
         IN IF h[node].isLeaf
            THEN <<entry>>
            ELSE LET i1 == i0 + 1
                     child == At(h[node].children, i1)
                 IN IF child = undefined
                    THEN <<entry>>
                    ELSE LET full == Len(h[child].keys) = m
                             h1 == IF full THEN splitChild(h, node, i1, m) ELSE h
                             i2 == IF full /\ Gt(key, At(h1[node].keys, i1)) THEN i1 + 1 ELSE i1
                         IN <<entry>>
                            \o (IF full THEN <<[fn |-> "splitChild", len |-> Len(h[child].keys)]>>
                                ELSE <<>>)
                            \o insertNonFullCalls(h1, At(h1[node].children, i2), key, m)

insertCalls(h, r, key, m) ==
    IF Len(h[r].keys) < m
    THEN insertNonFullCalls(h, r, key, m)
    ELSE LET newRoot == Len(h) + 1
             h1 == Append(h, [BPlusTreeNode(FALSE) EXCEPT !.children = <<r>>])
             h2 == splitChild(h1, newRoot, 0, m)
         IN <<[fn |-> "splitChild", len |-> Len(h[r].keys)]>>
            \o insertNonFullCalls(h2, newRoot, key, m)

(* C16: with maxKeys >= 2, after every completed insert or delete every    *)
(* node's keys are in ascending order and number at most maxKeys; every    *)
(* insertNonFull call of an insert enters a node with fewer than maxKeys   *)
(* keys and every splitChild call splits a child with exactly maxKeys      *)
(* keys.                                                                   *)
C16_SortedAndBounded ==
    ProperOrder =>
       /\ \A n \in TreeNodes : Ascending(nodes[n].keys) /\ Len(nodes[n].keys) <= maxKeys
       /\ \A k \in Keys :
             LET calls == insertCalls(nodes, root, k, maxKeys)
             IN \A j \in 1..Len(calls) :
                   IF calls[j].fn = "insertNonFull"
                   THEN calls[j].len < maxKeys
                   ELSE calls[j].len = maxKeys

(* an insert has just gone through a tree of order 2 or more and height 3  *)
(* some of whose nodes are full, so that a further insert splits on its    *)
(* way down                                                                *)
C16_Witness ==
    /\ ProperOrder
    /\ lastOp = "insert" /\ TreeHeight = 3 /\ anyDelete
    /\ \E k \in Keys : \E j \in 1..Len(insertCalls(nodes, root, k, maxKeys)) :
          insertCalls(nodes, root, k, maxKeys)[j].fn = "splitChild"

(* C17: every internal node has len(keys) + 1 children and every leaf has  *)
(* none; an internal split leaves the left node keys[0:mid] and the first  *)
(* mid + 1 children, gives the new node keys[mid+1:] and the remaining     *)
(* children, one more than its keys, and puts keys[mid] in the parent and  *)
(* in neither half.                                                        *)
C17_ChildrenCount ==
    /\ \A n \in TreeNodes :
          IF nodes[n].isLeaf THEN nodes[n].children = <<>>
          ELSE Len(nodes[n].children) = Len(nodes[n].keys) + 1
    /\ \A sp \in Splits :
          ~nodes[sp.left].isLeaf =>
             LET old == nodes[sp.left]
                 mid == (maxKeys + 1) \div 2
                 L == sp.h[sp.left]
                 R == sp.h[sp.right]
             IN /\ L.keys = Slice(old.keys, 0, mid)
                /\ L.children = Slice(old.children, 0, mid + 1)
                /\ R.keys = Slice(old.keys, mid + 1, Len(old.keys))
                /\ R.children = Slice(old.children, mid + 1, Len(old.children))
                /\ ~R.isLeaf /\ Len(R.children) = Len(R.keys) + 1
                /\ At(sp.h[sp.parent].keys, sp.index) = At(old.keys, mid)
                /\ At(sp.h[sp.parent].children, sp.index + 1) = sp.right
                /\ L.keys \o <<At(old.keys, mid)>> \o R.keys = old.keys

(* C17 as amended: the same, in every state of a tree with maxKeys >= 2.   *)
C17_ChildrenCountAmended == ProperOrder => C17_ChildrenCount

(* an insert has just left a tree of order 2 or more and height 3 (the     *)
(* internal root has been split) with a full internal node under the root  *)
C17_Witness ==
    /\ ProperOrder
    /\ lastOp = "insert" /\ TreeHeight = 3
    /\ \E sp \in Splits : ~nodes[sp.left].isLeaf /\ sp.left # root

(* C18: a delete(k) that finds k removes one occurrence of k from one leaf *)
(* and changes nothing else: no node is created, the root, the height,     *)
(* every other node and the leaf's other fields stay as they were.         *)
C18_DeleteFrame ==
    [][\A k \in Keys :
          (Delete(k) /\ lastResult') =>
             /\ Len(nodes') = Len(nodes) /\ root' = root
             /\ Height(nodes', root') = TreeHeight
             /\ \E n \in TreeNodes :
                   /\ nodes[n].isLeaf
                   /\ \E j \in 1..Len(nodes[n].keys) :
                         /\ nodes[n].keys[j] = k
                         /\ nodes'[n] = [nodes[n] EXCEPT !.keys = SpliceOut(@, j - 1)]
                   /\ \A o \in 1..Len(nodes) : o # n => nodes'[o] = nodes[o]]_vars

(* a delete has just emptied a leaf of a tree of order 2 or more with      *)
(* internal nodes                                                          *)
C18_Witness ==
    /\ ProperOrder
    /\ lastOp = "delete" /\ lastResult /\ TreeHeight >= 2
    /\ \E n \in TreeNodes : nodes[n].isLeaf /\ nodes[n].keys = <<>>

----------------------------------------------------------------------------
(* C19: from an empty tree, with every insert guarded by search as in the  *)
(* menu's case '2' and any deletes in between, no key occurs more than     *)
(* once in the leaves.                                                     *)
C19_NoDuplicates == \A k \in Words : Count(LeafKeys, k) <= 1

(* C20: a key k held by a leaf for which search(k) is false or delete(k)   *)
(* logs "not found" equals a routing key of an internal node on the path   *)
(* from the root to that leaf; a key held by a leaf that equals no routing *)
(* key of the tree is found by search and removed by delete.               *)
C20_MissOnlyAtRoutingKey ==
    \A k \in Keys :
       /\ (~search(nodes, root, k).found \/ ~delete(nodes, root, k).found) =>
             \A leaf \in TreeNodes :
                (nodes[leaf].isLeaf /\ Includes(nodes[leaf].keys, k)) =>
                   \E n \in TreeNodes :
                      /\ ~nodes[n].isLeaf
                      /\ leaf \in NodesUnder(nodes, n)
                      /\ Includes(nodes[n].keys, k)
       /\ (Stored(k) /\ ~Routing(k)) =>
             /\ search(nodes, root, k).found
             /\ delete(nodes, root, k).found
             /\ Count(KeysOf(delete(nodes, root, k).nodes, LeavesUnder(nodes, root)), k)
                   = Count(LeafKeys, k) - 1

(* C20 as amended: the same, in every state of a tree with maxKeys >= 2.   *)
C20_MissOnlyAtRoutingKeyAmended == ProperOrder => C20_MissOnlyAtRoutingKey

(* search has just missed a key that a leaf holds, in a tree of order 2 or *)
(* more and height 3 that also holds a key equal to no routing key, after  *)
(* deletes                                                                 *)
C20_Witness ==
    /\ ProperOrder
    /\ lastOp = "search" /\ ~lastResult /\ Stored(lastKey)
    /\ TreeHeight = 3 /\ anyDelete
    /\ \E k \in Keys : Stored(k) /\ ~Routing(k)

====
